---- MODULE Spec2Model ----
(***************************************************************************)
(* The real-time coordination layer of the junk-removal marketplace        *)
(* backend: the socket.io service of src/unnamed/part_004 (initialize,     *)
(* the authentication middleware, the per-socket event handlers and the    *)
(* emit utilities).                                                        *)
(*                                                                         *)
(* One action per inbound event; a handler that awaits a collaborator is   *)
(* cut at each await: the code between two awaits is one atomic step of    *)
(* the single-threaded event loop, and a pending handler is a task that    *)
(* resumes when the awaited call resolves or rejects.                      *)
(*                                                                         *)
(* ChatService and NotificationService are used by the handlers but their  *)
(* require lines are commented out (part_004:3,5), and the methods of      *)
(* JobService the handlers call are not in the repository's sources.  A    *)
(* call to one of them therefore either throws/rejects (always possible:   *)
(* unbound identifier, missing method, database failure) or resolves with  *)
(* the value the specification gives for it.                               *)
(***************************************************************************)
EXTENDS Integers, Sequences, FiniteSets, Bags, TLC

VARIABLES
    sockets,   \* per socket: handshake state, identity, connection-local fields
    adapter,   \* the room index: the set of <<room, socket id>> memberships
    tasks,     \* the bag of handlers suspended at an await
    handled,   \* the inbound event whose handler ran in the last step
    emitted,   \* the events the last step emitted, in order, with their recipients
    called,    \* the collaborator calls the last step issued, in order
    messages,  \* the messages ChatService has saved, in order
    inbox,     \* per socket, the ids of the messages its client was sent
    drivers,   \* per job, the driver it is assigned to (0: none)
    userJoined \* per client and socket, the user-joined events the client was sent
               \* for the socket since it last left (2: more than one)

vars == <<sockets, adapter, tasks, handled, emitted, called, messages, inbox, drivers,
          userJoined>>

(***************************************************************************)
(* Bounds and input sets                                                   *)
(***************************************************************************)
MaxTasks == 1    \* handlers suspended at an await at the same time
MaxGroups == 2   \* location groups one socket subscribes to
MaxMessages == 1 \* messages ChatService holds

\* The sockets: 1 is opened by the customer, 2 by the driver assigned to job 1,
\* 3 by another driver.
Conn == {1, 2, 3}

\* The users: 1 a customer, 2 and 3 drivers, 4 an admin.
Users == {1, 2, 3, 4}
RoleOf(u) == IF u = 1 THEN "customer" ELSE IF u = 4 THEN "admin" ELSE "driver"
UsersOf(c) == {c}

\* Job 1 belongs to customer 1 and is assigned to driver 2 at first; job 2
\* belongs to customer 1 and is not assigned yet (0: no driver), so it is open
\* for bids.  A jobId that is no job (0: undefined) has no customer, no driver.
Jobs == {1, 2}
ChatJobs == {1}
customerOf(jobId) == IF jobId \in Jobs THEN 1 ELSE 0
assignedDriver(jobId) == IF jobId \in Jobs THEN drivers[jobId] ELSE 0

\* Credentials a client can present in socket.handshake.auth.token: none, a
\* string that is no token of this server, or a token the server signed for a
\* user, still valid or expired.
Claims(u) == [userId |-> u, role |-> RoleOf(u), name |-> "user" \o ToString(u)]
Credentials(c) ==
    {[kind |-> "missing", payload |-> [userId |-> 0, role |-> "", name |-> ""]],
     [kind |-> "malformed", payload |-> [userId |-> 0, role |-> "", name |-> ""]]}
      \cup {[kind |-> k, payload |-> Claims(u)] : k \in {"expired", "signed"}, u \in UsersOf(c)}

\* The payload the register and login endpoints sign for a user, and the
\* tokens a client holds after logging in.
LoginClaims(u) == [id |-> u, email |-> "user" \o ToString(u) \o "@mail", role |-> RoleOf(u)]
LoginCredentials(c) ==
    {[kind |-> k, payload |-> LoginClaims(u)] : k \in {"expired", "signed"}, u \in UsersOf(c)}

\* A payload that is not an object (the client sent no argument).
Undefined == [undefined |-> TRUE]
IsUndefined(data) == "undefined" \in DOMAIN data

\* Coordinates are in half degrees (81 is 40.5), so that rounding has cases.
SendMessagePayloads == {[jobId |-> j, message |-> "hello"] : j \in ChatJobs}
TypingPayloads == {[jobId |-> j, isTyping |-> b] : j \in ChatJobs, b \in BOOLEAN}
LocationPayloads == {[jobId |-> j, lat |-> 81, lng |-> -148] : j \in ChatJobs}
StatusPayloads == {[jobId |-> j, status |-> "in_progress"] : j \in ChatJobs}
BidPayloads == {[jobId |-> j, amount |-> 120] : j \in Jobs}

\* subscribe-new-jobs payloads, as <<lat, lng, radius>>: 40.5 and 41.0 round to
\* 41 and 41.5 to 42; -74.5 rounds to -74 and -73.5 to -73; <<>> is a radius
\* left out.
SubscribePayloads ==
    {[lat |-> p[1], lng |-> p[2], radius |-> p[3]] :
        p \in {<<81, -149, <<>> >>, <<82, -149, <<25>> >>, <<83, -149, <<25>> >>,
               <<81, -147, <<25>> >>, <<81, -149, <<50>> >>}}

\* Payloads with a field left out.  A jobId left out is undefined in the
\* handler: 0, which is no job.  A message left out is a payload without it.
MalformedMessages == {[jobId |-> 0, message |-> "hello"], [jobId |-> 1]}
MalformedLocations == {[jobId |-> 0, lat |-> 81, lng |-> -148]}
MalformedBids == {[jobId |-> 0, amount |-> 120]}

NoTask == [ev |-> "none"]
NoEvent == [sid |-> 0, event |-> "", step |-> "", data |-> Undefined]

(***************************************************************************)
(* socket.io: rooms, recipients, emission                                  *)
(***************************************************************************)
chatRoom(jobId) == "chat:" \o ToString(jobId)
userRoom(userId) == "user:" \o ToString(userId)

membersOf(room) == {s \in Conn : <<room, s>> \in adapter}
roomsOf(s) == {m[1] : m \in {x \in adapter : x[2] = s}}

\* A packet reaches only sockets still registered with the namespace.
Live(S) == {s \in S : sockets[s].state = "connected"}

\* io.emit in place of io.to(room).emit: every socket.
ioToEveryone(room) == Live(Conn)
\* io.to(room).emit: every member of the room.
ioTo(room) == Live(membersOf(room))

\* io.to(room).emit in place of socket.to(room).emit: the sender included.
socketToWithSelf(sid, room) == Live(membersOf(room))
\* socket.to(room).emit: every member of the room except the socket itself.
socketTo(sid, room) == Live(membersOf(room)) \ {sid}

\* socket.emit: the socket itself.
socketEmit(sid) == Live({sid})

Emit(to, room, event, data) == [event |-> event, room |-> room, to |-> to, data |-> data]

\* io.emit in place of socket.emit for an error.
ErrorToEveryone(sid, message) == Emit(Live(Conn), "", "error", [message |-> message])
ErrorTo(sid, message) == Emit(socketEmit(sid), "", "error", [message |-> message])

Call(fn, args) == [fn |-> fn, args |-> args]

\* socket.join(room).  socket.io either still adds a closed socket to the room
\* or ignores the call, depending on its version, which the sources do not pin.
socketJoin(sid, room) ==
    IF sockets[sid].state = "connected"
    THEN {adapter \cup {<<room, sid>>}}
    ELSE {adapter \cup {<<room, sid>>}, adapter}
\* socket.leave dropping every room of the socket.
socketLeaveEvery(sid, room) == {m \in adapter : m[2] # sid}
socketLeave(sid, room) == adapter \ {<<room, sid>>}
leaveAll(sid) == {m \in adapter : m[2] # sid}

(***************************************************************************)
(* Collaborators, from their contracts                                     *)
(***************************************************************************)
verifyChatAccess(jobId, userId, userRole) ==
    userId = customerOf(jobId) \/ userId = assignedDriver(jobId) \/ userRole = "admin"
verifyDriverJobAccess(jobId, userId) == userId = assignedDriver(jobId)
canDriverBid(jobId, userId) ==
    jobId \in Jobs /\ RoleOf(userId) = "driver" /\ assignedDriver(jobId) = 0
\* The stored messages of a job, and a message as stored: with its id.
getRecentMessages(jobId) == SelectSeq(messages, LAMBDA msg : msg.jobId = jobId)
saveMessage(message) == [id |-> Len(messages) + 1] @@ message
getOtherParticipants(jobId, userId) ==
    ({customerOf(jobId), assignedDriver(jobId)} \ {0}) \ {userId}
Outcomes == {"resolve", "reject"}

(***************************************************************************)
(* State after initialize(server): no socket, no room, nothing pending     *)
(***************************************************************************)
NoSocket ==
    [state |-> "idle", userId |-> 0, userRole |-> "", userName |-> "",
     currentChatRoom |-> "", locationPreference |-> <<>>]

Init ==
    /\ sockets = [c \in Conn |-> NoSocket]
    /\ adapter = {}
    /\ tasks = EmptyBag
    /\ handled = NoEvent
    /\ emitted = <<>>
    /\ called = <<>>
    /\ messages = <<>>
    /\ drivers = [j \in Jobs |-> IF j = 1 THEN 2 ELSE 0]
    /\ userJoined = [o \in Conn |-> [c \in Conn |-> 0]]
    /\ inbox = [c \in Conn |-> [pushed |-> {}, history |-> {}]]

Connected(c) == sockets[c].state = "connected"
Pending == BagToSet(tasks)
Suspend(t) == IF t = NoTask THEN EmptyBag ELSE SetToBag({t})

\* What one step of a handler does: the room index it leaves, what it emits,
\* what it calls, and the task it suspends as (NoTask when the handler returns).
Effect(a, e, c, t) == [adapter |-> a, emitted |-> e, called |-> c, task |-> t]

Task(sid, ev, data, pc) == [ev |-> ev, sid |-> sid, data |-> data, pc |-> pc]

\* An inbound event of socket c starts its handler.
ReceiveWithin(limit, c, ev, data, eff) ==
    /\ Connected(c)
    /\ eff.task # NoTask => BagCardinality(tasks) < limit
    /\ adapter' = eff.adapter
    /\ emitted' = eff.emitted
    /\ called' = eff.called
    /\ tasks' = tasks (+) Suspend(eff.task)
    /\ handled' = [sid |-> c, event |-> ev, step |-> "receive", data |-> data]
    /\ UNCHANGED sockets

Receive(c, ev, data, eff) == ReceiveWithin(MaxTasks, c, ev, data, eff)

\* One handler at a time: a call settles only when no other call is pending.
ResumeAlone(t, outcome, eff) ==
    /\ BagCardinality(tasks) = 1
    /\ adapter' = eff.adapter
    /\ emitted' = eff.emitted
    /\ called' = eff.called
    /\ tasks' = (tasks (-) SetToBag({t})) (+) Suspend(eff.task)
    /\ handled' = [sid |-> t.sid, event |-> t.ev,
                   step |-> t.pc \o ":" \o outcome, data |-> t.data]
    /\ UNCHANGED sockets
\* The call task t awaits settles and the handler runs to its next await or end.
Resume(t, outcome, eff) ==
    /\ adapter' = eff.adapter
    /\ emitted' = eff.emitted
    /\ called' = eff.called
    /\ tasks' = (tasks (-) SetToBag({t})) (+) Suspend(eff.task)
    /\ handled' = [sid |-> t.sid, event |-> t.ev,
                   step |-> t.pc \o ":" \o outcome, data |-> t.data]
    /\ UNCHANGED sockets

(***************************************************************************)
(* Handshake: io.use middleware, then the connection handler               *)
(***************************************************************************)
\* jwt.decode in place of jwt.verify: signature and expiry are not checked.
jwtDecodes(token) == TRUE
jwtVerifies(token) == token.kind = "signed"

\* decoded.userId and decoded.name of a payload signed without them are
\* undefined: 0 and "".
decodedUserId(payload) == IF "userId" \in DOMAIN payload THEN payload.userId ELSE 0
decodedName(payload) == IF "name" \in DOMAIN payload THEN payload.name ELSE ""

Connect(c, token) ==
    /\ sockets[c].state = "idle"
    /\ handled' = [sid |-> c, event |-> "connection", step |-> "receive",
                   data |-> [token |-> token]]
    /\ called' = <<>>
    /\ UNCHANGED tasks
    /\ IF token.kind = "missing"
       THEN /\ sockets' = [sockets EXCEPT ![c].state = "rejected"]
            /\ emitted' = <<Emit({c}, "", "connect_error",
                                 [message |-> "Authentication error: No token provided"])>>
            /\ UNCHANGED adapter
       ELSE IF ~jwtVerifies(token)
       THEN /\ sockets' = [sockets EXCEPT ![c].state = "rejected"]
            /\ emitted' = <<Emit({c}, "", "connect_error",
                                 [message |-> "Authentication error: Invalid token"])>>
            /\ UNCHANGED adapter
       ELSE /\ sockets' = [sockets EXCEPT ![c].state = "connected",
                                          ![c].userId = decodedUserId(token.payload),
                                          ![c].userRole = token.payload.role,
                                          ![c].userName = decodedName(token.payload)]
            /\ adapter' = adapter \cup {<<userRoom(decodedUserId(token.payload)), c>>}
            /\ emitted' = <<>>

(***************************************************************************)
(* disconnect                                                              *)
(***************************************************************************)
Disconnect(c) ==
    /\ Connected(c)
    /\ sockets' = [sockets EXCEPT ![c].state = "disconnected"]
    /\ adapter' = leaveAll(c)
    /\ handled' = [sid |-> c, event |-> "disconnect", step |-> "receive", data |-> Undefined]
    /\ called' = <<>>
    /\ emitted' =
          IF sockets[c].currentChatRoom # ""
          THEN <<Emit(socketTo(c, sockets[c].currentChatRoom),
                      sockets[c].currentChatRoom, "typing",
                      [userId |-> sockets[c].userId, userName |-> sockets[c].userName,
                       isTyping |-> FALSE])>>
          ELSE <<>>
    /\ UNCHANGED tasks

(***************************************************************************)
(* join-chat                                                               *)
(***************************************************************************)
onJoinChat(c, jobId) ==
    Effect(adapter, <<>>,
           <<Call("ChatService.verifyChatAccess",
                  <<jobId, sockets[c].userId, sockets[c].userRole>>)>>,
           Task(c, "join-chat", [jobId |-> jobId], "verifyChatAccess"))

joinChatFailed(t) ==
    {Effect(adapter, <<ErrorTo(t.sid, "Failed to join chat")>>, <<>>, NoTask)}

\* The denial branch without its return: the handler goes on to join.
joinChatDeniedNoReturn(t) ==
    {Effect(adapter \cup {<<chatRoom(t.data.jobId), t.sid>>},
            <<ErrorTo(t.sid, "Access denied to this chat")>>,
            <<Call("ChatService.getRecentMessages", <<t.data.jobId>>)>>,
            [t EXCEPT !.pc = "getRecentMessages"])}
joinChatDenied(t) ==
    {Effect(adapter, <<ErrorTo(t.sid, "Access denied to this chat")>>, <<>>, NoTask)}

joinChatGranted(t) ==
    {Effect(a, <<>>, <<Call("ChatService.getRecentMessages", <<t.data.jobId>>)>>,
            [t EXCEPT !.pc = "getRecentMessages"])
       : a \in socketJoin(t.sid, chatRoom(t.data.jobId))}

\* The history emitted to the whole room instead of the requester.
joinChatHistoryToRoom(t) ==
    {Effect(adapter,
            <<Emit(ioTo(chatRoom(t.data.jobId)), chatRoom(t.data.jobId), "chat-history",
                   [jobId |-> t.data.jobId, messages |-> getRecentMessages(t.data.jobId)]),
              Emit(socketTo(t.sid, chatRoom(t.data.jobId)), chatRoom(t.data.jobId),
                   "user-joined",
                   [userId |-> sockets[t.sid].userId, userName |-> sockets[t.sid].userName])>>,
            <<>>, NoTask)}
joinChatHistory(t) ==
    {Effect(adapter,
            <<Emit(socketEmit(t.sid), "", "chat-history",
                   [jobId |-> t.data.jobId, messages |-> getRecentMessages(t.data.jobId)]),
              Emit(socketTo(t.sid, chatRoom(t.data.jobId)), chatRoom(t.data.jobId),
                   "user-joined",
                   [userId |-> sockets[t.sid].userId, userName |-> sockets[t.sid].userName])>>,
            <<>>, NoTask)}

JoinChat(c, jobId) == Receive(c, "join-chat", [jobId |-> jobId], onJoinChat(c, jobId))

\* The result of the query ignored for a socket that is in the room already.
JoinChatAccessOfMember(t, outcome) ==
    /\ t.ev = "join-chat" /\ t.pc = "verifyChatAccess"
    /\ LET effs == IF outcome = "reject" THEN joinChatFailed(t)
                   ELSE IF /\ <<chatRoom(t.data.jobId), t.sid>> \notin adapter
                           /\ ~verifyChatAccess(t.data.jobId, sockets[t.sid].userId,
                                                sockets[t.sid].userRole)
                   THEN joinChatDenied(t)
                   ELSE joinChatGranted(t)
       IN \E eff \in effs : Resume(t, outcome, eff)
JoinChatAccess(t, outcome) ==
    /\ t.ev = "join-chat" /\ t.pc = "verifyChatAccess"
    /\ LET effs == IF outcome = "reject" THEN joinChatFailed(t)
                   ELSE IF ~verifyChatAccess(t.data.jobId, sockets[t.sid].userId,
                                             sockets[t.sid].userRole)
                   THEN joinChatDenied(t)
                   ELSE joinChatGranted(t)
       IN \E eff \in effs : Resume(t, outcome, eff)

JoinChatHistory(t, outcome) ==
    /\ t.ev = "join-chat" /\ t.pc = "getRecentMessages"
    /\ LET effs == IF outcome = "reject" THEN joinChatFailed(t) ELSE joinChatHistory(t)
       IN \E eff \in effs : Resume(t, outcome, eff)

(***************************************************************************)
(* leave-chat                                                              *)
(***************************************************************************)
onLeaveChat(c, jobId) ==
    Effect(socketLeave(c, chatRoom(jobId)),
           <<Emit(socketTo(c, chatRoom(jobId)), chatRoom(jobId), "user-left",
                  [userId |-> sockets[c].userId, userName |-> sockets[c].userName])>>,
           <<>>, NoTask)

LeaveChat(c, jobId) == Receive(c, "leave-chat", [jobId |-> jobId], onLeaveChat(c, jobId))

(***************************************************************************)
(* send-message                                                            *)
(***************************************************************************)
sendMessageFailed(t) ==
    {Effect(adapter, <<ErrorTo(t.sid, "Failed to send message")>>, <<>>, NoTask)}

onSendMessage(c, data) ==
    IF IsUndefined(data)
    THEN Effect(adapter, <<ErrorTo(c, "Failed to send message")>>, <<>>, NoTask)
    ELSE Effect(adapter, <<>>,
                <<Call("ChatService.verifyChatAccess",
                       <<data.jobId, sockets[c].userId, sockets[c].userRole>>)>>,
                Task(c, "send-message", data, "verifyChatAccess"))

sendMessageDenied(t) ==
    {Effect(adapter, <<ErrorTo(t.sid, "Access denied")>>, <<>>, NoTask)}

\* The record handed to ChatService.saveMessage.
\* A message that is undefined is no property of the record once serialized.
chatMessage(t) ==
    IF "message" \in DOMAIN t.data
    THEN [jobId |-> t.data.jobId, senderId |-> sockets[t.sid].userId,
          senderName |-> sockets[t.sid].userName, message |-> t.data.message,
          type |-> "text"]
    ELSE [jobId |-> t.data.jobId, senderId |-> sockets[t.sid].userId,
          senderName |-> sockets[t.sid].userName, type |-> "text"]

sendMessageGranted(t) ==
    {Effect(adapter, <<>>, <<Call("ChatService.saveMessage", <<chatMessage(t)>>)>>,
            [t EXCEPT !.pc = "saveMessage"])}

\* The lookup of the other participants awaited before the broadcast.
sendMessageSavedLookupFirst(t) ==
    {Effect(adapter, <<>>,
            <<Call("ChatService.getOtherParticipants", <<t.data.jobId, sockets[t.sid].userId>>)>>,
            [t EXCEPT !.pc = "getOtherParticipants"])}
sendMessageSaved(t) ==
    {Effect(adapter,
            <<Emit(ioTo(chatRoom(t.data.jobId)), chatRoom(t.data.jobId),
                   "new-message", saveMessage(chatMessage(t)))>>,
            <<Call("ChatService.getOtherParticipants", <<t.data.jobId, sockets[t.sid].userId>>)>>,
            [t EXCEPT !.pc = "getOtherParticipants"])}

RECURSIVE PushEach(_, _)
PushEach(S, data) ==
    IF S = {} THEN <<>>
    ELSE LET u == CHOOSE x \in S : \A y \in S : x <= y
         IN <<Call("NotificationService.sendPushNotification", <<u, data>>)>>
            \o PushEach(S \ {u}, data)

\* The loop over the other participants.  message.length throws for the first
\* of them when message is undefined, and so may sendPushNotification (the
\* require of NotificationService is commented out at line 5): either lands in
\* the handler's catch.  With nobody to notify nothing is evaluated.
sendMessageNotify(t) ==
    LET others == getOtherParticipants(t.data.jobId, sockets[t.sid].userId)
        pushed == {Effect(adapter, <<>>,
                          PushEach(others, [type |-> "chat_message", jobId |-> t.data.jobId,
                                            senderId |-> sockets[t.sid].userId]),
                          NoTask)}
    IN IF others = {} THEN pushed
       ELSE IF "message" \notin DOMAIN t.data THEN sendMessageFailed(t)
       ELSE pushed \cup sendMessageFailed(t)

SendMessage(c, data) == Receive(c, "send-message", data, onSendMessage(c, data))

SendMessageAccess(t, outcome) ==
    /\ t.ev = "send-message" /\ t.pc = "verifyChatAccess"
    /\ LET effs == IF outcome = "reject" THEN sendMessageFailed(t)
                   ELSE IF ~verifyChatAccess(t.data.jobId, sockets[t.sid].userId,
                                             sockets[t.sid].userRole)
                   THEN sendMessageDenied(t)
                   ELSE sendMessageGranted(t)
       IN \E eff \in effs : Resume(t, outcome, eff)

\* The broadcast issued whether or not the save succeeded.
SendMessageSavedAnyway(t, outcome) ==
    /\ t.ev = "send-message" /\ t.pc = "saveMessage"
    /\ \E eff \in sendMessageSaved(t) : Resume(t, outcome, eff)
SendMessageSaved(t, outcome) ==
    /\ t.ev = "send-message" /\ t.pc = "saveMessage"
    /\ LET effs == IF outcome = "reject" THEN sendMessageFailed(t) ELSE sendMessageSaved(t)
       IN \E eff \in effs : Resume(t, outcome, eff)

SendMessageNotify(t, outcome) ==
    /\ t.ev = "send-message" /\ t.pc = "getOtherParticipants"
    /\ LET effs == IF outcome = "reject" THEN sendMessageFailed(t) ELSE sendMessageNotify(t)
       IN \E eff \in effs : Resume(t, outcome, eff)

(***************************************************************************)
(* typing                                                                  *)
(***************************************************************************)
onTyping(c, data) ==
    Effect(adapter,
           <<Emit(socketTo(c, chatRoom(data.jobId)), chatRoom(data.jobId), "typing",
                  [userId |-> sockets[c].userId, userName |-> sockets[c].userName,
                   isTyping |-> data.isTyping])>>,
           <<>>, NoTask)

Typing(c, data) == Receive(c, "typing", data, onTyping(c, data))

(***************************************************************************)
(* update-location                                                         *)
(***************************************************************************)
updateLocationFailed(t) ==
    {Effect(adapter, <<ErrorTo(t.sid, "Failed to update location")>>, <<>>, NoTask)}

onUpdateLocation(c, data) ==
    IF IsUndefined(data)
    THEN Effect(adapter, <<ErrorTo(c, "Failed to update location")>>, <<>>, NoTask)
    ELSE Effect(adapter, <<>>,
                <<Call("JobService.verifyDriverJobAccess", <<data.jobId, sockets[c].userId>>)>>,
                Task(c, "update-location", data, "verifyDriverJobAccess"))

updateLocationDenied(t) ==
    {Effect(adapter, <<ErrorTo(t.sid, "Access denied")>>, <<>>, NoTask)}

updateLocationGranted(t) ==
    {Effect(adapter, <<>>,
            <<Call("JobService.updateDriverLocation",
                   <<t.data.jobId, sockets[t.sid].userId, t.data.lat, t.data.lng>>)>>,
            [t EXCEPT !.pc = "updateDriverLocation"])}

\* lat and lng swapped in the broadcast payload.
driverLocationSwapped(t) ==
    [jobId |-> t.data.jobId, driverId |-> sockets[t.sid].userId,
     location |-> [lat |-> t.data.lng, lng |-> t.data.lat]]
driverLocation(t) ==
    [jobId |-> t.data.jobId, driverId |-> sockets[t.sid].userId,
     location |-> [lat |-> t.data.lat, lng |-> t.data.lng]]

updateLocationSaved(t) ==
    {Effect(adapter,
            <<Emit(ioTo(chatRoom(t.data.jobId)), chatRoom(t.data.jobId),
                   "driver-location", driverLocation(t))>>,
            <<>>, NoTask)}

UpdateLocation(c, data) == Receive(c, "update-location", data, onUpdateLocation(c, data))

UpdateLocationAccess(t, outcome) ==
    /\ t.ev = "update-location" /\ t.pc = "verifyDriverJobAccess"
    /\ LET effs == IF outcome = "reject" THEN updateLocationFailed(t)
                   ELSE IF ~verifyDriverJobAccess(t.data.jobId, sockets[t.sid].userId)
                   THEN updateLocationDenied(t)
                   ELSE updateLocationGranted(t)
       IN \E eff \in effs : Resume(t, outcome, eff)

UpdateLocationSaved(t, outcome) ==
    /\ t.ev = "update-location" /\ t.pc = "updateDriverLocation"
    /\ LET effs == IF outcome = "reject" THEN updateLocationFailed(t)
                   ELSE updateLocationSaved(t)
       IN \E eff \in effs : Resume(t, outcome, eff)

(***************************************************************************)
(* job-status-update                                                       *)
(***************************************************************************)
jobStatusFailed(t) ==
    {Effect(adapter, <<ErrorTo(t.sid, "Failed to update job status")>>, <<>>, NoTask)}

onJobStatusUpdate(c, data) ==
    IF IsUndefined(data)
    THEN Effect(adapter, <<ErrorTo(c, "Failed to update job status")>>, <<>>, NoTask)
    ELSE Effect(adapter, <<>>,
                <<Call("JobService.verifyDriverJobAccess", <<data.jobId, sockets[c].userId>>)>>,
                Task(c, "job-status-update", data, "verifyDriverJobAccess"))

\* The denial branch without its return: the status is updated all the same.
jobStatusDeniedNoReturn(t) ==
    {Effect(adapter, <<ErrorTo(t.sid, "Access denied")>>,
            <<Call("JobService.updateJobStatus",
                   <<t.data.jobId, t.data.status, sockets[t.sid].userId>>)>>,
            [t EXCEPT !.pc = "updateJobStatus"])}
jobStatusDenied(t) ==
    {Effect(adapter, <<ErrorTo(t.sid, "Access denied")>>, <<>>, NoTask)}

jobStatusGranted(t) ==
    {Effect(adapter, <<>>,
            <<Call("JobService.updateJobStatus",
                   <<t.data.jobId, t.data.status, sockets[t.sid].userId>>)>>,
            [t EXCEPT !.pc = "updateJobStatus"])}

jobStatusUpdated(t) ==
    {Effect(adapter,
            <<Emit(ioTo(chatRoom(t.data.jobId)), chatRoom(t.data.jobId), "job-update",
                   [jobId |-> t.data.jobId, status |-> t.data.status,
                    driverId |-> sockets[t.sid].userId,
                    driverName |-> sockets[t.sid].userName])>>,
            <<Call("JobService.getJobCustomerId", <<t.data.jobId>>)>>,
            [t EXCEPT !.pc = "getJobCustomerId"])}

\* The push to the customer, or sendPushNotification throwing into the catch.
jobStatusNotify(t) ==
    {Effect(adapter, <<>>,
            <<Call("NotificationService.sendPushNotification",
                   <<customerOf(t.data.jobId),
                     [type |-> "job_update", jobId |-> t.data.jobId,
                      status |-> t.data.status]>>)>>,
            NoTask)}
      \cup jobStatusFailed(t)

JobStatusUpdate(c, data) ==
    Receive(c, "job-status-update", data, onJobStatusUpdate(c, data))

JobStatusAccess(t, outcome) ==
    /\ t.ev = "job-status-update" /\ t.pc = "verifyDriverJobAccess"
    /\ LET effs == IF outcome = "reject" THEN jobStatusFailed(t)
                   ELSE IF ~verifyDriverJobAccess(t.data.jobId, sockets[t.sid].userId)
                   THEN jobStatusDenied(t)
                   ELSE jobStatusGranted(t)
       IN \E eff \in effs : Resume(t, outcome, eff)

JobStatusUpdated(t, outcome) ==
    /\ t.ev = "job-status-update" /\ t.pc = "updateJobStatus"
    /\ LET effs == IF outcome = "reject" THEN jobStatusFailed(t) ELSE jobStatusUpdated(t)
       IN \E eff \in effs : Resume(t, outcome, eff)

JobStatusNotify(t, outcome) ==
    /\ t.ev = "job-status-update" /\ t.pc = "getJobCustomerId"
    /\ LET effs == IF outcome = "reject" THEN jobStatusFailed(t) ELSE jobStatusNotify(t)
       IN \E eff \in effs : Resume(t, outcome, eff)

(***************************************************************************)
(* place-bid                                                               *)
(***************************************************************************)
placeBidFailed(t) ==
    {Effect(adapter, <<ErrorTo(t.sid, "Failed to place bid")>>, <<>>, NoTask)}

onPlaceBid(c, data) ==
    IF IsUndefined(data)
    THEN Effect(adapter, <<ErrorTo(c, "Failed to place bid")>>, <<>>, NoTask)
    ELSE Effect(adapter, <<>>,
                <<Call("JobService.canDriverBid", <<data.jobId, sockets[c].userId>>)>>,
                Task(c, "place-bid", data, "canDriverBid"))

\* The denial branch without its return: the bid is placed all the same.
placeBidDeniedNoReturn(t) ==
    {Effect(adapter, <<ErrorTo(t.sid, "Cannot bid on this job")>>,
            <<Call("JobService.placeBid",
                   <<t.data.jobId, sockets[t.sid].userId, t.data.amount>>)>>,
            [t EXCEPT !.pc = "placeBid"])}
placeBidDenied(t) ==
    {Effect(adapter, <<ErrorTo(t.sid, "Cannot bid on this job")>>, <<>>, NoTask)}

placeBidGranted(t) ==
    {Effect(adapter, <<>>,
            <<Call("JobService.placeBid",
                   <<t.data.jobId, sockets[t.sid].userId, t.data.amount>>)>>,
            [t EXCEPT !.pc = "placeBid"])}

placeBidPlaced(t) ==
    {Effect(adapter, <<>>, <<Call("JobService.getJobCustomerId", <<t.data.jobId>>)>>,
            [t EXCEPT !.pc = "getJobCustomerId"])}

\* The bid announced to the job's chat room as well.
placeBidNotifyToRoom(t) ==
    {Effect(adapter,
            <<Emit(ioTo(chatRoom(t.data.jobId)), chatRoom(t.data.jobId), "new-bid",
                   [jobId |-> t.data.jobId, driverId |-> sockets[t.sid].userId,
                    amount |-> t.data.amount])>>,
            <<Call("NotificationService.sendPushNotification",
                   <<customerOf(t.data.jobId),
                     [type |-> "new_bid", jobId |-> t.data.jobId,
                      driverId |-> sockets[t.sid].userId, amount |-> t.data.amount]>>)>>,
            NoTask)}
\* The push to the customer, or sendPushNotification throwing into the catch.
placeBidNotify(t) ==
    {Effect(adapter, <<>>,
            <<Call("NotificationService.sendPushNotification",
                   <<customerOf(t.data.jobId),
                     [type |-> "new_bid", jobId |-> t.data.jobId,
                      driverId |-> sockets[t.sid].userId, amount |-> t.data.amount]>>)>>,
            NoTask)}
      \cup placeBidFailed(t)

PlaceBid(c, data) == Receive(c, "place-bid", data, onPlaceBid(c, data))

PlaceBidChecked(t, outcome) ==
    /\ t.ev = "place-bid" /\ t.pc = "canDriverBid"
    /\ LET effs == IF outcome = "reject" THEN placeBidFailed(t)
                   ELSE IF ~canDriverBid(t.data.jobId, sockets[t.sid].userId)
                   THEN placeBidDenied(t)
                   ELSE placeBidGranted(t)
       IN \E eff \in effs : Resume(t, outcome, eff)

PlaceBidPlaced(t, outcome) ==
    /\ t.ev = "place-bid" /\ t.pc = "placeBid"
    /\ LET effs == IF outcome = "reject" THEN placeBidFailed(t) ELSE placeBidPlaced(t)
       IN \E eff \in effs : Resume(t, outcome, eff)

PlaceBidNotify(t, outcome) ==
    /\ t.ev = "place-bid" /\ t.pc = "getJobCustomerId"
    /\ LET effs == IF outcome = "reject" THEN placeBidFailed(t) ELSE placeBidNotify(t)
       IN \E eff \in effs : Resume(t, outcome, eff)

(***************************************************************************)
(* subscribe-new-jobs                                                      *)
(***************************************************************************)
DefaultRadius == 25

\* Math.floor in place of Math.round.
MathFloor(x) == x \div 2
\* Math.round on a coordinate given in half degrees: halves round up.
MathRound(x) == (x + 1) \div 2

locationKey(lat, lng, radius) ==
    "location:" \o ToString(MathRound(lat)) \o ":" \o ToString(MathRound(lng))
                \o ":" \o ToString(radius)

\* const { lat, lng, radius = 25 } = data
radiusOf(data) == IF data.radius = <<>> THEN DefaultRadius ELSE data.radius[1]

LocationKeys == {locationKey(d.lat, d.lng, radiusOf(d)) : d \in SubscribePayloads}
locationRoomsOf(c) == roomsOf(c) \cap LocationKeys

SubscribeNewJobs(c, data) ==
    /\ Connected(c)
    /\ Cardinality(locationRoomsOf(c)) < MaxGroups
    /\ adapter' = adapter \cup {<<locationKey(data.lat, data.lng, radiusOf(data)), c>>}
    /\ sockets' = [sockets EXCEPT ![c].locationPreference =
                      <<data.lat, data.lng, radiusOf(data)>>]
    /\ handled' = [sid |-> c, event |-> "subscribe-new-jobs", step |-> "receive",
                   data |-> data]
    /\ emitted' = <<>>
    /\ called' = <<>>
    /\ UNCHANGED tasks

(***************************************************************************)
(* typing and subscribe-new-jobs without a payload                         *)
(***************************************************************************)
\* Both handlers destructure data outside any try/catch, so with no payload
\* (data undefined) the TypeError leaves the handler.  socket.io dispatches
\* the event from process.nextTick with no catch of its own: the exception is
\* uncaught, and the process exits (node's default; every socket and room goes
\* with it and clients reconnect to a fresh process) unless the embedding
\* server, which is not in the sources, listens for uncaughtException.
UncaughtOutcomes == {"exit", "continue"}

Uncaught(c, ev, outcome) ==
    /\ Connected(c)
    /\ handled' = [sid |-> c, event |-> ev, step |-> "throw", data |-> Undefined]
    /\ emitted' = <<>>
    /\ called' = <<>>
    /\ sockets' = IF outcome = "exit"
                  THEN [s \in Conn |-> IF sockets[s].state = "connected"
                                       THEN [sockets[s] EXCEPT !.state = "disconnected"]
                                       ELSE sockets[s]]
                  ELSE sockets
    /\ adapter' = IF outcome = "exit" THEN {} ELSE adapter
    /\ tasks' = IF outcome = "exit" THEN EmptyBag ELSE tasks

TypingNoPayload(c, outcome) == Uncaught(c, "typing", outcome)
SubscribeNoPayload(c, outcome) == Uncaught(c, "subscribe-new-jobs", outcome)

(***************************************************************************)
(* The emit utilities the rest of the server calls                         *)
(***************************************************************************)
\* io.emit in place of io.to(room).emit: every connected socket is reached.
UtilityToAll(fn, args, room, event, data) ==
    /\ handled' = [sid |-> 0, event |-> fn, step |-> "call", data |-> args]
    /\ emitted' = <<Emit(Live(Conn), room, event, data)>>
    /\ called' = <<>>
    /\ UNCHANGED <<sockets, adapter, tasks>>
\* A call of a utility is no event of a socket: sid 0.
Utility(fn, args, room, event, data) ==
    /\ handled' = [sid |-> 0, event |-> fn, step |-> "call", data |-> args]
    /\ emitted' = <<Emit(ioTo(room), room, event, data)>>
    /\ called' = <<>>
    /\ UNCHANGED <<sockets, adapter, tasks>>

emitToUser(userId, event, data) ==
    Utility("emitToUser", [userId |-> userId], userRoom(userId), event, data)

broadcastToAdmins(event, data) ==
    Utility("broadcastToAdmins", [role |-> "admin"], "admin", event, data)

\* io.to(`chat:${jobId}`).emit(event, data)
emitToChat(jobId, event, data) ==
    Utility("emitToChat", [jobId |-> jobId], chatRoom(jobId), event, data)

\* The room is the key of the job's rounded coordinates and of the radius the
\* caller passes.
emitToLocation(lat, lng, radius, event, data) ==
    Utility("emitToLocation", [lat |-> lat, lng |-> lng, radius |-> radius],
            locationKey(lat, lng, radius), event, data)

\* New jobs to dispatch, at 41.0, -74.0: the centre of the bucket 41, -74.
DispatchPayloads == {[lat |-> 82, lng |-> -148, radius |-> r] : r \in {25, 50}}
NewJob == [title |-> "new job"]

\* PUT /admin/:jobId/reassign: JobService.reassignJob gives the job to another
\* driver; the route tells the coordinator nothing.
reassignJob(jobId, driverId) ==
    /\ drivers[jobId] # driverId
    /\ drivers' = [drivers EXCEPT ![jobId] = driverId]
    /\ handled' = [sid |-> 0, event |-> "reassignJob", step |-> "call",
                   data |-> [jobId |-> jobId, driverId |-> driverId]]
    /\ emitted' = <<>>
    /\ called' = <<>>
    /\ UNCHANGED <<sockets, adapter, tasks, messages, inbox, userJoined>>

\* Who may open which socket when the same user connects twice and an admin
\* connects: sockets 1 and 2 are the customer's or the driver's, socket 3 the
\* admin's or the driver's.
ChannelUsersOf(c) == IF c = 3 THEN {2, 4} ELSE {1, 2}
ChannelCredentials(c) == {[kind |-> "signed", payload |-> Claims(u)] : u \in ChannelUsersOf(c)}
Notice == [title |-> "notice"]

(***************************************************************************)
(* The coordinator: any socket's next event, or any pending call settling  *)
(***************************************************************************)
\* The handlers alone: a collaborator is a call that resolves or rejects, and
\* what ChatService holds and what each client has been sent is not recorded.
StoreUntouched == UNCHANGED <<messages, inbox, drivers, userJoined>>

NextConnection ==
    \/ \E c \in Conn : \E token \in Credentials(c) : Connect(c, token) /\ StoreUntouched
    \/ \E c \in Conn : Disconnect(c) /\ StoreUntouched

NextChat ==
    \/ \E c \in Conn, j \in ChatJobs : JoinChat(c, j) /\ StoreUntouched
    \/ \E t \in Pending, o \in Outcomes : JoinChatAccess(t, o) /\ StoreUntouched
    \/ \E t \in Pending, o \in Outcomes : JoinChatHistory(t, o) /\ StoreUntouched
    \/ \E c \in Conn, j \in ChatJobs : LeaveChat(c, j) /\ StoreUntouched
    \/ \E c \in Conn, d \in SendMessagePayloads \cup {Undefined} : SendMessage(c, d) /\ StoreUntouched
    \/ \E t \in Pending, o \in Outcomes : SendMessageAccess(t, o) /\ StoreUntouched
    \/ \E t \in Pending, o \in Outcomes : SendMessageSaved(t, o) /\ StoreUntouched
    \/ \E t \in Pending, o \in Outcomes : SendMessageNotify(t, o) /\ StoreUntouched
    \/ \E c \in Conn, d \in TypingPayloads : Typing(c, d) /\ StoreUntouched

NextJob ==
    \/ \E c \in Conn, d \in LocationPayloads \cup {Undefined} : UpdateLocation(c, d) /\ StoreUntouched
    \/ \E t \in Pending, o \in Outcomes : UpdateLocationAccess(t, o) /\ StoreUntouched
    \/ \E t \in Pending, o \in Outcomes : UpdateLocationSaved(t, o) /\ StoreUntouched
    \/ \E c \in Conn, d \in StatusPayloads \cup {Undefined} : JobStatusUpdate(c, d) /\ StoreUntouched
    \/ \E t \in Pending, o \in Outcomes : JobStatusAccess(t, o) /\ StoreUntouched
    \/ \E t \in Pending, o \in Outcomes : JobStatusUpdated(t, o) /\ StoreUntouched
    \/ \E t \in Pending, o \in Outcomes : JobStatusNotify(t, o) /\ StoreUntouched
    \/ \E c \in Conn, d \in BidPayloads \cup {Undefined} : PlaceBid(c, d) /\ StoreUntouched
    \/ \E t \in Pending, o \in Outcomes : PlaceBidChecked(t, o) /\ StoreUntouched
    \/ \E t \in Pending, o \in Outcomes : PlaceBidPlaced(t, o) /\ StoreUntouched
    \/ \E t \in Pending, o \in Outcomes : PlaceBidNotify(t, o) /\ StoreUntouched

NextDispatch ==
    \E c \in Conn, d \in SubscribePayloads : SubscribeNewJobs(c, d) /\ StoreUntouched

\* The job service announcing a new job to the subscribers around it.
NextLocation ==
    \E d \in DispatchPayloads :
        emitToLocation(d.lat, d.lng, d.radius, "new-job", NewJob) /\ StoreUntouched

\* Joins and leaves of the three users while an admin reassigns job 1 between
\* the two drivers.
NextAssignment ==
    \/ \E c \in Conn :
          Connect(c, [kind |-> "signed", payload |-> Claims(c)]) /\ StoreUntouched
    \/ \E c \in Conn, j \in ChatJobs : JoinChat(c, j) /\ StoreUntouched
    \/ \E t \in Pending, o \in Outcomes : JoinChatAccess(t, o) /\ StoreUntouched
    \/ \E t \in Pending, o \in Outcomes : JoinChatHistory(t, o) /\ StoreUntouched
    \/ \E c \in Conn, j \in ChatJobs : LeaveChat(c, j) /\ StoreUntouched
    \/ \E j \in ChatJobs, d \in {2, 3} : reassignJob(j, d)

\* Events whose payload lacks a field.
NextMalformed ==
    \/ \E c \in Conn :
          Connect(c, [kind |-> "signed", payload |-> Claims(c)]) /\ StoreUntouched
    \/ \E c \in Conn, d \in MalformedMessages : SendMessage(c, d) /\ StoreUntouched
    \/ \E t \in Pending, o \in Outcomes : SendMessageAccess(t, o) /\ StoreUntouched
    \/ \E t \in Pending, o \in Outcomes : SendMessageSaved(t, o) /\ StoreUntouched
    \/ \E t \in Pending, o \in Outcomes : SendMessageNotify(t, o) /\ StoreUntouched
    \/ \E c \in Conn, d \in MalformedLocations : UpdateLocation(c, d) /\ StoreUntouched
    \/ \E t \in Pending, o \in Outcomes : UpdateLocationAccess(t, o) /\ StoreUntouched
    \/ \E c \in Conn, d \in MalformedBids : PlaceBid(c, d) /\ StoreUntouched
    \/ \E t \in Pending, o \in Outcomes : PlaceBidChecked(t, o) /\ StoreUntouched

\* Sockets entering and leaving the chat room of a job while the server
\* emits to that room.
NextRooms ==
    \/ \E c \in Conn :
          Connect(c, [kind |-> "signed", payload |-> Claims(c)]) /\ StoreUntouched
    \/ \E c \in Conn : Disconnect(c) /\ StoreUntouched
    \/ \E c \in Conn, j \in ChatJobs : JoinChat(c, j) /\ StoreUntouched
    \/ \E t \in Pending, o \in Outcomes : JoinChatAccess(t, o) /\ StoreUntouched
    \/ \E t \in Pending, o \in Outcomes : JoinChatHistory(t, o) /\ StoreUntouched
    \/ \E c \in Conn, j \in ChatJobs : LeaveChat(c, j) /\ StoreUntouched
    \/ \E j \in ChatJobs : emitToChat(j, "job-assigned", Notice) /\ StoreUntouched

\* Clients that logged in over the REST API opening their sockets, and pushes
\* to users.
NextLogin ==
    \/ \E c \in Conn : \E token \in LoginCredentials(c) : Connect(c, token) /\ StoreUntouched
    \/ \E c \in Conn : Disconnect(c) /\ StoreUntouched
    \/ \E u \in Users : emitToUser(u, "notification", Notice) /\ StoreUntouched

\* Events that arrive without a payload.
NextNoPayload ==
    \/ \E c \in Conn, o \in UncaughtOutcomes : TypingNoPayload(c, o) /\ StoreUntouched
    \/ \E c \in Conn, o \in UncaughtOutcomes : SubscribeNoPayload(c, o) /\ StoreUntouched
    \/ \E c \in Conn : SendMessage(c, Undefined) /\ StoreUntouched
    \/ \E c \in Conn : UpdateLocation(c, Undefined) /\ StoreUntouched
    \/ \E c \in Conn : JobStatusUpdate(c, Undefined) /\ StoreUntouched
    \/ \E c \in Conn : PlaceBid(c, Undefined) /\ StoreUntouched

\* The handlers together with ChatService's store: a save that resolves has
\* appended the message, a history that resolves is read from the store, and
\* every message sent to a client, pushed or in a history, is recorded.
ChatServiceStep ==
    /\ messages' = IF handled'.event = "send-message" /\ handled'.step = "saveMessage:resolve"
                   THEN Append(messages, emitted'[1].data)
                   ELSE messages
    /\ inbox' = [c \in Conn |->
          [pushed |-> inbox[c].pushed \cup
              {emitted'[i].data.id : i \in {k \in DOMAIN emitted' :
                  emitted'[k].event = "new-message" /\ c \in emitted'[k].to}},
           history |-> inbox[c].history \cup
              UNION {{emitted'[i].data.messages[n].id : n \in DOMAIN emitted'[i].data.messages} :
                        i \in {k \in DOMAIN emitted' :
                                  emitted'[k].event = "chat-history" /\ c \in emitted'[k].to}}]]
    /\ UNCHANGED <<drivers, userJoined>>

\* The customer and the assigned driver of job 1: both may join its chat.
ChatParties == {1, 2}

\* Joins and messages of the two parties, one handler more than MaxTasks in
\* flight so that a join and a send overlap.
NextHistory ==
    \/ \E c \in ChatParties :
          Connect(c, [kind |-> "signed", payload |-> Claims(c)]) /\ ChatServiceStep
    \/ \E c \in ChatParties, j \in ChatJobs :
          /\ ReceiveWithin(MaxTasks + 1, c, "join-chat", [jobId |-> j], onJoinChat(c, j))
          /\ ChatServiceStep
    \/ \E t \in Pending, o \in Outcomes : JoinChatAccess(t, o) /\ ChatServiceStep
    \/ \E t \in Pending, o \in Outcomes : JoinChatHistory(t, o) /\ ChatServiceStep
    \/ \E c \in ChatParties, d \in SendMessagePayloads :
          /\ ReceiveWithin(MaxTasks + 1, c, "send-message", d, onSendMessage(c, d))
          /\ ChatServiceStep
    \/ \E t \in Pending, o \in Outcomes : SendMessageAccess(t, o) /\ ChatServiceStep
    \/ \E t \in Pending, o \in Outcomes :
          Len(messages) < MaxMessages /\ SendMessageSaved(t, o) /\ ChatServiceStep
    \/ \E t \in Pending, o \in Outcomes : SendMessageNotify(t, o) /\ ChatServiceStep

\* A client that sends "first" and then "second" to the chat of job 1: a text
\* is in flight while its handler is suspended, and stored once saved.
InFlight(text) ==
    \E t \in Pending : t.ev = "send-message" /\ t.data.message = text
Stored(text) == \E i \in DOMAIN messages : messages[i].message = text
MaySend(text) ==
    /\ ~InFlight("second") /\ ~Stored("second")
    /\ IF text = "first"
       THEN ~InFlight("first") /\ ~Stored("first")
       ELSE InFlight("first") \/ Stored("first")

\* The customer's socket sending the two messages one after the other, the
\* handlers of both in flight together, while the driver joins the chat.
NextOrder ==
    \/ \E c \in ChatParties :
          Connect(c, [kind |-> "signed", payload |-> Claims(c)]) /\ ChatServiceStep
    \/ \E j \in ChatJobs :
          /\ ReceiveWithin(MaxTasks + 1, 2, "join-chat", [jobId |-> j], onJoinChat(2, j))
          /\ ChatServiceStep
    \/ \E t \in Pending, o \in Outcomes : JoinChatAccess(t, o) /\ ChatServiceStep
    \/ \E t \in Pending, o \in Outcomes : JoinChatHistory(t, o) /\ ChatServiceStep
    \/ \E j \in ChatJobs, text \in {"first", "second"} :
          /\ MaySend(text)
          /\ ReceiveWithin(MaxTasks + 1, 1, "send-message", [jobId |-> j, message |-> text],
                           onSendMessage(1, [jobId |-> j, message |-> text]))
          /\ ChatServiceStep
    \/ \E t \in Pending, o \in Outcomes : SendMessageAccess(t, o) /\ ChatServiceStep
    \/ \E t \in Pending, o \in Outcomes :
          Len(messages) < MaxMessages + 1 /\ SendMessageSaved(t, o) /\ ChatServiceStep
    \/ \E t \in Pending, o \in Outcomes : SendMessageNotify(t, o) /\ ChatServiceStep

\* A socket asks to join a chat it is not in and has not asked to join yet.
Joining(c, jobId) ==
    \E t \in Pending : t.ev = "join-chat" /\ t.sid = c /\ t.data.jobId = jobId
FirstJoin(c, jobId) ==
    /\ <<chatRoom(jobId), c>> \notin adapter
    /\ ~Joining(c, jobId)
    /\ JoinChat(c, jobId)

\* Sockets joining a chat from outside it, leaving and disconnecting.
NextFirstJoin ==
    \/ \E c \in Conn :
          Connect(c, [kind |-> "signed", payload |-> Claims(c)]) /\ StoreUntouched
    \/ \E c \in Conn : Disconnect(c) /\ StoreUntouched
    \/ \E c \in Conn, j \in ChatJobs : FirstJoin(c, j) /\ StoreUntouched
    \/ \E t \in Pending, o \in Outcomes : JoinChatAccess(t, o) /\ StoreUntouched
    \/ \E t \in Pending, o \in Outcomes : JoinChatHistory(t, o) /\ StoreUntouched
    \/ \E c \in Conn, j \in ChatJobs : LeaveChat(c, j) /\ StoreUntouched

\* What the clients in a chat see of a socket's presence: a user-joined sent
\* to a client counts for the socket that joined, and the count of a socket
\* starts again when it leaves the chat.
PresenceStep ==
    /\ userJoined' = [o \in Conn |-> [c \in Conn |->
          IF handled'.event = "leave-chat" /\ handled'.sid = c THEN 0
          ELSE IF /\ handled'.event = "join-chat" /\ handled'.sid = c
                  /\ \E i \in DOMAIN emitted' :
                        emitted'[i].event = "user-joined" /\ o \in emitted'[i].to
          THEN IF userJoined[o][c] = 0 THEN 1 ELSE 2
          ELSE userJoined[o][c]]]
    /\ UNCHANGED <<messages, inbox, drivers>>

\* Sockets joining the chat of job 1, again and again, and leaving it once
\* their join has run to its end.
NextPresence ==
    \/ \E c \in Conn :
          Connect(c, [kind |-> "signed", payload |-> Claims(c)]) /\ PresenceStep
    \/ \E c \in Conn, j \in ChatJobs : JoinChat(c, j) /\ PresenceStep
    \/ \E t \in Pending, o \in Outcomes : JoinChatAccess(t, o) /\ PresenceStep
    \/ \E t \in Pending, o \in Outcomes : JoinChatHistory(t, o) /\ PresenceStep
    \/ \E c \in Conn, j \in ChatJobs : ~Joining(c, j) /\ LeaveChat(c, j) /\ PresenceStep

\* Handshakes of users with several sockets, and server-side pushes.
NextChannels ==
    \/ \E c \in Conn : \E token \in ChannelCredentials(c) : Connect(c, token) /\ StoreUntouched
    \/ \E c \in Conn : Disconnect(c) /\ StoreUntouched
    \/ \E u \in Users : emitToUser(u, "notification", Notice) /\ StoreUntouched
    \/ broadcastToAdmins("admin-alert", Notice) /\ StoreUntouched

\* Chat and job events of the three sockets.
Next == NextConnection \/ NextChat \/ NextJob
Spec == Init /\ [][Next]_vars

\* Dispatch subscriptions of the three sockets.
SpecDispatch == Init /\ [][NextConnection \/ NextDispatch]_vars

\* Handshakes, disconnects and payload-less events.
SpecNoPayload == Init /\ [][NextConnection \/ NextNoPayload]_vars

\* User rooms and the admin room under handshakes, disconnects and pushes.
SpecChannels == Init /\ [][NextChannels]_vars

\* Joins interleaved with messages, with the message store.
SpecHistory == Init /\ [][NextHistory]_vars

\* Dispatch subscriptions and the announcement of new jobs.
SpecLocation == Init /\ [][NextConnection \/ NextDispatch \/ NextLocation]_vars

\* Chat membership while the job changes hands.
SpecAssignment == Init /\ [][NextAssignment]_vars

\* Chat, location and bid events with a field left out.
SpecMalformed == Init /\ [][NextMalformed]_vars

\* Chat rooms under joins, leaves, disconnects and server-side emits.
SpecRooms == Init /\ [][NextRooms]_vars

\* Handshakes with the tokens of the login endpoint.
SpecLogin == Init /\ [][NextLogin]_vars

\* Two messages of one socket with both handlers in flight.
SpecOrder == Init /\ [][NextOrder]_vars

\* Joins of sockets that are not in the room when they ask.
SpecFirstJoin == Init /\ [][NextFirstJoin]_vars

\* Repeated joins, with what the other members are told.
SpecPresence == Init /\ [][NextPresence]_vars

(***************************************************************************)
(* Properties                                                              *)
(***************************************************************************)
LiveMembers(room) == {s \in Conn : sockets[s].state = "connected" /\ <<room, s>> \in adapter}
Delivered(sid) == IF sockets[sid].state = "connected" THEN {sid} ELSE {}

\* C1: when the message of a send-message is saved, one new-message carrying it
\* is emitted and its recipients are exactly the connections that are members
\* of the job's chat room at that moment (the sender too when it is a member);
\* new-message is emitted at no other point.
C1_NewMessageToRoomMembers ==
    /\ (handled.event = "send-message" /\ handled.step = "saveMessage:resolve") =>
          /\ Len(emitted) = 1
          /\ emitted[1].event = "new-message"
          /\ emitted[1].data.message = handled.data.message
          /\ emitted[1].to = LiveMembers("chat:" \o ToString(handled.data.jobId))
    /\ \A i \in DOMAIN emitted : emitted[i].event = "new-message" =>
          handled.event = "send-message" /\ handled.step = "saveMessage:resolve"

\* Sender A and another member B both receive the message; a connected
\* non-member does not.
C1_Witness ==
    /\ handled.event = "send-message" /\ handled.step = "saveMessage:resolve"
    /\ handled.sid \in emitted[1].to
    /\ \E b \in emitted[1].to : b # handled.sid
    /\ \E c \in Conn : sockets[c].state = "connected" /\ c \notin emitted[1].to

Unauthorized(c, jobId) ==
    /\ sockets[c].userId # customerOf(jobId)
    /\ sockets[c].userId # assignedDriver(jobId)
    /\ sockets[c].userRole # "admin"

\* C2: when the join-chat of an identity that is neither the job's customer,
\* nor its assigned driver, nor an admin ends its access check, the only effect
\* is one error event to the requester ("Access denied to this chat" when the
\* check returned): the room index is unchanged, no chat-history or user-joined
\* is emitted, no further call is made and the handler is over.
C2_UnauthorizedJoinDenied ==
    [][(/\ handled'.event = "join-chat"
        /\ handled'.step # "receive"
        /\ Unauthorized(handled'.sid, handled'.data.jobId)) =>
          /\ adapter' = adapter
          /\ \A t \in BagToSet(tasks') : ~(t.ev = "join-chat" /\ t.sid = handled'.sid
                                           /\ t.pc # "verifyChatAccess")
          /\ called' = <<>>
          /\ Len(emitted') = 1
          /\ emitted'[1].event = "error"
          /\ emitted'[1].room = ""
          /\ emitted'[1].to = Delivered(handled'.sid)
          /\ (handled'.step = "verifyChatAccess:resolve" =>
                emitted'[1].data.message = "Access denied to this chat")]_vars

C2_Witness ==
    /\ handled.event = "join-chat" /\ handled.step = "verifyChatAccess:resolve"
    /\ Unauthorized(handled.sid, handled.data.jobId)
    /\ Len(emitted) = 1 /\ emitted[1].to = {handled.sid}

\* C3: no typing event is delivered to the connection whose event (typing or
\* disconnect) produced it.
C3_TypingNotToSender ==
    \A i \in DOMAIN emitted : emitted[i].event = "typing" => handled.sid \notin emitted[i].to

\* A member of the room types and the other member receives the event.
C3_Witness ==
    /\ handled.event = "typing"
    /\ <<emitted[1].room, handled.sid>> \in adapter
    /\ emitted[1].to # {}

\* C4: a disconnect emits, for each chat room the connection was in and that
\* has remaining members, exactly one user-left / typing-cleared notice to those
\* members, and none for a room it was not in.
C4_DisconnectNoticePerRoom ==
    [][\A c \in Conn : (sockets[c].state = "connected" /\ sockets'[c].state = "disconnected") =>
          \A j \in ChatJobs :
             LET room == "chat:" \o ToString(j)
                 rest == LiveMembers(room) \ {c}
                 notices == {i \in DOMAIN emitted' :
                                /\ emitted'[i].room = room
                                /\ emitted'[i].event \in {"user-left", "typing"}}
             IN IF <<room, c>> \in adapter /\ rest # {}
                THEN Cardinality(notices) = 1 /\ \A i \in notices : emitted'[i].to = rest
                ELSE notices = {}]_vars

\* C5: a connection that has disconnected is a member of no room.
C5_NoMembershipAfterDisconnect ==
    \A c \in Conn : sockets[c].state = "disconnected" => \A m \in adapter : m[2] # c

\* The integer nearest to a coordinate given in half degrees, halves going up.
Bucket(x) == CHOOSE n \in (x \div 2 - 1)..(x \div 2 + 1) : 2 * n - 1 <= x /\ x < 2 * n + 1
SameGroup(p, q) == Bucket(p[1]) = Bucket(q[1]) /\ Bucket(p[2]) = Bucket(q[2]) /\ p[3] = q[3]
GroupRoom(p) == locationKey(p[1], p[2], p[3])
Subscribed == {c \in Conn : sockets[c].state = "connected" /\ sockets[c].locationPreference # <<>>}

\* C6: a subscribe-new-jobs adds the connection to one room and to no other;
\* a subscribed connection is in the room of its round(lat), round(lng), radius
\* (25 when omitted), two connections with the same three values share that
\* room, and the rooms of two connections whose rounded lat or rounded lng
\* differ are different rooms.
C6_SameBucketSameGroup ==
    /\ [](\A c1 \in Subscribed : \A c2 \in Subscribed :
            LET p1 == sockets[c1].locationPreference
                p2 == sockets[c2].locationPreference
            IN /\ c1 \in membersOf(GroupRoom(p1))
               /\ SameGroup(p1, p2) => c2 \in membersOf(GroupRoom(p1))
               /\ (Bucket(p1[1]) # Bucket(p2[1]) \/ Bucket(p1[2]) # Bucket(p2[2])) =>
                     GroupRoom(p1) # GroupRoom(p2))
    /\ [][handled'.event = "subscribe-new-jobs" =>
            /\ sockets'[handled'.sid].locationPreference =
                  <<handled'.data.lat, handled'.data.lng,
                    IF handled'.data.radius = <<>> THEN 25 ELSE handled'.data.radius[1]>>
            /\ \E room \in LocationKeys : adapter' = adapter \cup {<<room, handled'.sid>>}]_vars

\* Two connections with different coordinates of the same bucket share a room
\* that a third connection, of another bucket, is not in.
C6_Witness ==
    \E c1, c2, c3 \in Subscribed :
        /\ c1 # c2
        /\ sockets[c1].locationPreference # sockets[c2].locationPreference
        /\ SameGroup(sockets[c1].locationPreference, sockets[c2].locationPreference)
        /\ {c1, c2} \subseteq membersOf(GroupRoom(sockets[c1].locationPreference))
        /\ ~SameGroup(sockets[c1].locationPreference, sockets[c3].locationPreference)
        /\ c3 \notin membersOf(GroupRoom(sockets[c1].locationPreference))

\* C7: when the location of an update-location is persisted, which only happens
\* for the job's assigned driver, one driver-location event carrying the lat and
\* lng of the payload is emitted and its recipients are exactly the connections
\* that are members of the job's chat room; driver-location is emitted at no
\* other point.
C7_DriverLocationToRoom ==
    /\ (handled.event = "update-location" /\ handled.step = "updateDriverLocation:resolve") =>
          /\ sockets[handled.sid].userId = assignedDriver(handled.data.jobId)
          /\ Len(emitted) = 1
          /\ emitted[1].event = "driver-location"
          /\ emitted[1].data.jobId = handled.data.jobId
          /\ emitted[1].data.location = [lat |-> handled.data.lat, lng |-> handled.data.lng]
          /\ emitted[1].to = LiveMembers("chat:" \o ToString(handled.data.jobId))
    /\ \A i \in DOMAIN emitted : emitted[i].event = "driver-location" =>
          handled.event = "update-location" /\ handled.step = "updateDriverLocation:resolve"

\* The customer, joined to the room, receives the location; the third
\* connection, connected but not joined, does not.
C7_Witness ==
    /\ handled.event = "update-location" /\ handled.step = "updateDriverLocation:resolve"
    /\ \E s \in emitted[1].to : sockets[s].userId = customerOf(handled.data.jobId)
    /\ \E c \in Conn : sockets[c].state = "connected" /\ c \notin emitted[1].to

\* C8: a handshake with a missing, malformed or expired credential is rejected;
\* a rejected connection stays rejected, has no identity, is in no room, has no
\* handler pending, and no event of it is ever handled.
C8_BadCredentialRejected ==
    /\ []((handled.event = "connection" /\ handled.data.token.kind # "signed") =>
             /\ sockets[handled.sid].state = "rejected"
             /\ Len(emitted) = 1 /\ emitted[1].event = "connect_error"
             /\ emitted[1].to = {handled.sid}
             /\ called = <<>>)
    /\ [](\A c \in Conn : sockets[c].state = "rejected" =>
             /\ sockets[c].userId = 0
             /\ \A m \in adapter : m[2] # c
             /\ \A t \in BagToSet(tasks) : t.sid # c
             /\ handled.sid = c => handled.event = "connection")
    /\ [][\A c \in Conn : sockets[c].state = "rejected" => sockets'[c].state = "rejected"]_vars

\* An expired credential is rejected while another connection is connected.
C8_Witness ==
    /\ handled.event = "connection" /\ handled.data.token.kind = "expired"
    /\ sockets[handled.sid].state = "rejected"
    /\ \E c \in Conn : sockets[c].state = "connected"

Ineligible(c, jobId) == sockets[c].userRole # "driver" \/ assignedDriver(jobId) # 0

\* C9: when the eligibility check of a place-bid returns for a sender that may
\* not bid on the job, the only effect is the error "Cannot bid on this job" to
\* the sender: no call is made (no bid, no notification) and the handler is
\* over; JobService.placeBid is never called for an ineligible sender.
C9_IneligibleBidRejected ==
    /\ (/\ handled.event = "place-bid"
        /\ handled.step = "canDriverBid:resolve"
        /\ Ineligible(handled.sid, handled.data.jobId)) =>
          /\ called = <<>>
          /\ Len(emitted) = 1
          /\ emitted[1].event = "error"
          /\ emitted[1].data.message = "Cannot bid on this job"
          /\ emitted[1].to = Delivered(handled.sid)
    /\ \A t \in BagToSet(tasks) :
          (t.ev = "place-bid" /\ t.pc # "canDriverBid") => ~Ineligible(t.sid, t.data.jobId)
    /\ \A i \in DOMAIN called :
          called[i].fn \in {"JobService.placeBid", "NotificationService.sendPushNotification"}
             /\ handled.event = "place-bid"
          => ~Ineligible(handled.sid, handled.data.jobId)

\* The assigned driver of job 1 bids on job 1 and gets the error.
C9_Witness ==
    /\ handled.event = "place-bid" /\ handled.step = "canDriverBid:resolve"
    /\ assignedDriver(handled.data.jobId) # 0
    /\ sockets[handled.sid].userRole = "driver"
    /\ Len(emitted) = 1 /\ emitted[1].to = {handled.sid}

\* C10: an error event is emitted to no room and reaches the connection whose
\* event was being handled, and no other connection.
C10_ErrorsToSenderOnly ==
    \A i \in DOMAIN emitted : emitted[i].event = "error" =>
        /\ emitted[i].room = ""
        /\ emitted[i].to = Delivered(handled.sid)

\* An error reaches its sender while that sender shares a chat room with
\* another connection.
C10_Witness ==
    /\ Len(emitted) = 1 /\ emitted[1].event = "error" /\ emitted[1].to = {handled.sid}
    /\ \E j \in ChatJobs : \E b \in Conn :
          b # handled.sid /\ {b, handled.sid} \subseteq LiveMembers("chat:" \o ToString(j))

\* C11: no inbound event, whatever its payload, ends with an exception leaving
\* its handler, and the connections that were connected before the event are
\* still connected after it.
C11_NoEscapingException ==
    [][(handled'.event \notin {"connection", "disconnect"}) =>
          /\ handled'.step # "throw"
          /\ \A c \in Conn : sockets[c].state = "connected" =>
                sockets'[c].state = "connected"]_vars

PersistenceFailed(h) ==
    \/ h.event = "send-message" /\ h.step = "saveMessage:reject"
    \/ h.event = "update-location" /\ h.step = "updateDriverLocation:reject"
    \/ h.event = "job-status-update" /\ h.step = "updateJobStatus:reject"

\* C12: when the persistence call of a send-message, update-location or
\* job-status-update fails, the step emits nothing but one error to the sender
\* (no new-message, driver-location or job-update reaches anyone), makes no
\* further call, ends the handler and leaves every connection and every room
\* as it was; afterwards an event of any connected connection is still accepted.
C12_FailedPersistenceNoBroadcast ==
    /\ [][PersistenceFailed(handled') =>
            /\ Len(emitted') = 1
            /\ emitted'[1].event = "error"
            /\ emitted'[1].to = Delivered(handled'.sid)
            /\ called' = <<>>
            /\ adapter' = adapter
            /\ sockets' = sockets
            /\ BagCardinality(tasks') = BagCardinality(tasks) - 1
            /\ \E t \in BagToSet(tasks) :
                  /\ t.sid = handled'.sid /\ t.ev = handled'.event /\ t.data = handled'.data
                  /\ CopiesIn(t, tasks') = CopiesIn(t, tasks) - 1]_vars
    /\ [](PersistenceFailed(handled) =>
            \A c \in Conn : sockets[c].state = "connected" =>
                /\ ENABLED Typing(c, [jobId |-> 1, isTyping |-> TRUE])
                /\ ENABLED SendMessage(c, [jobId |-> 1, message |-> "hello"]))

\* The save of a message fails while the sender and another connection are in
\* the room the broadcast would have gone to.
C12_Witness ==
    /\ handled.event = "send-message" /\ handled.step = "saveMessage:reject"
    /\ Len(emitted) = 1 /\ emitted[1].to = {handled.sid}
    /\ \E b \in Conn : b # handled.sid /\ {b, handled.sid} \subseteq LiveMembers("chat:1")

\* C13: no connection is sent a message of another connection twice, once
\* pushed as new-message and once inside a chat-history; and a message saved
\* while a connection is joined to the room is pushed to that connection.
C13_NoDuplicateNoLoss ==
    /\ \A c \in Conn : \A id \in inbox[c].pushed \cap inbox[c].history :
          messages[id].senderId = sockets[c].userId
    /\ (handled.event = "send-message" /\ handled.step = "saveMessage:resolve") =>
          \A c \in LiveMembers("chat:" \o ToString(handled.data.jobId)) :
              messages[Len(messages)].id \in inbox[c].pushed

UserChannels == {userRoom(u) : u \in Users \cup {0}}

\* C14: a connected connection is a member of the user room of the userId
\* bound to it at the handshake and of no other user room, whatever events it
\* and the others have sent since.
C14_OwnUserChannelOnly ==
    \A c \in Conn : sockets[c].state = "connected" =>
        roomsOf(c) \cap UserChannels = {userRoom(sockets[c].userId)}

\* A connection has joined a chat room and left it again, and is still in its
\* user room, next to another connected user.
C14_Witness ==
    /\ handled.event = "leave-chat"
    /\ sockets[handled.sid].state = "connected"
    /\ roomsOf(handled.sid) = {userRoom(sockets[handled.sid].userId)}
    /\ emitted[1].to # {}
    /\ \E c \in Conn : c # handled.sid /\ sockets[c].state = "connected"

Admins == {c \in Conn : sockets[c].state = "connected" /\ sockets[c].userRole = "admin"}

\* C15: every connected connection whose role is admin is a member of the
\* admin room, and a broadcastToAdmins call reaches exactly the connected
\* admin connections.
C15_AdminsInAdminChannel ==
    /\ \A c \in Admins : <<"admin", c>> \in adapter
    /\ handled.event = "broadcastToAdmins" => emitted[1].to = Admins

\* C16: a user room has at most one connected member, so an emitToUser call
\* reaches at most one connection; with no connected member it reaches nobody
\* and leaves nothing pending.
C16_UserChannelAtMostOne ==
    /\ \A u \in Users : Cardinality(LiveMembers(userRoom(u))) <= 1
    /\ handled.event = "emitToUser" =>
          /\ Cardinality(emitted[1].to) <= 1
          /\ emitted[1].to = LiveMembers(userRoom(handled.data.userId))
          /\ tasks = EmptyBag

NotJoined(h) == <<"chat:" \o ToString(h.data.jobId), h.sid>> \notin adapter

\* C17: a send-message of a connection that is not a member of the job's chat
\* room goes no further than its access check: the check's return emits one
\* error to the sender, ChatService.saveMessage is not called and no
\* new-message is emitted.
C17_SendRequiresJoined ==
    (/\ handled.event = "send-message"
     /\ handled.step = "verifyChatAccess:resolve"
     /\ NotJoined(handled)) =>
        /\ Len(emitted) = 1
        /\ emitted[1].event = "error"
        /\ emitted[1].to = Delivered(handled.sid)
        /\ called = <<>>

\* C18: a typing event of a connection that is not a member of the job's chat
\* room reaches no connection.
C18_TypingRequiresJoined ==
    (handled.event = "typing" /\ NotJoined(handled)) =>
        \A i \in DOMAIN emitted : emitted[i].to = {}

\* C19: a leave-chat of a member removes it from the room and emits user-left
\* to the members that remain; a leave-chat of a non-member changes no
\* membership and delivers user-left to no connection.
C19_LeaveNoOpForNonMember ==
    [][handled'.event = "leave-chat" =>
          LET room == "chat:" \o ToString(handled'.data.jobId)
              sid == handled'.sid
          IN IF <<room, sid>> \in adapter
             THEN /\ adapter' = adapter \ {<<room, sid>>}
                  /\ Len(emitted') = 1
                  /\ emitted'[1].event = "user-left"
                  /\ emitted'[1].to = LiveMembers(room) \ {sid}
             ELSE /\ adapter' = adapter
                  /\ \A i \in DOMAIN emitted' : emitted'[i].to = {}]_vars

\* C20: when the access check of a join-chat returns true for a connected
\* requester, the requester is added to the job's chat room and nothing is
\* emitted yet; when the history then arrives, it is emitted to the requester
\* alone, followed by one user-joined to the other members of the room, the
\* requester excluded, and the room index is left as it is.
C20_JoinDeliversHistoryThenPresence ==
    [][LET room == "chat:" \o ToString(handled'.data.jobId)
           sid == handled'.sid
       IN (handled'.event = "join-chat" /\ sockets[sid].state = "connected") =>
            /\ (handled'.step = "verifyChatAccess:resolve" /\ ~Unauthorized(sid, handled'.data.jobId)) =>
                  /\ adapter' = adapter \cup {<<room, sid>>}
                  /\ emitted' = <<>>
            /\ handled'.step = "getRecentMessages:resolve" =>
                  /\ adapter' = adapter
                  /\ Len(emitted') = 2
                  /\ emitted'[1].event = "chat-history"
                  /\ emitted'[1].data.jobId = handled'.data.jobId
                  /\ emitted'[1].to = {sid}
                  /\ emitted'[2].event = "user-joined"
                  /\ emitted'[2].data.userId = sockets[sid].userId
                  /\ emitted'[2].to = LiveMembers(room) \ {sid}]_vars

\* The history reaches the joiner, user-joined another member, and a third
\* connected connection gets neither.
C20_Witness ==
    /\ handled.event = "join-chat" /\ handled.step = "getRecentMessages:resolve"
    /\ Len(emitted) = 2
    /\ emitted[1].to = {handled.sid}
    /\ handled.sid \in LiveMembers("chat:" \o ToString(handled.data.jobId))
    /\ emitted[2].to # {}
    /\ \E c \in Conn : /\ sockets[c].state = "connected"
                       /\ c \notin emitted[1].to \cup emitted[2].to
\* The connected subscribers of a group of the job's bucket, whatever radius
\* the group was stored with.
BucketSubscribers(lat, lng) ==
    {c \in Conn : /\ sockets[c].state = "connected"
                  /\ \E d \in SubscribePayloads :
                        /\ <<locationKey(d.lat, d.lng, radiusOf(d)), c>> \in adapter
                        /\ Bucket(d.lat) = Bucket(lat) /\ Bucket(d.lng) = Bucket(lng)}

\* C21: a dispatch for a job is delivered to the members of every location
\* group of the job's bucket whose stored radius is at least the distance from
\* the bucket centre to the job, not only to the group of the radius the caller
\* passed.  The jobs dispatched here are at the bucket centre (distance 0), so
\* every group of the bucket, of radius 25 or 50, is to be reached.
C21_DispatchReachesCoveringGroups ==
    handled.event = "emitToLocation" =>
        emitted[1].to = BucketSubscribers(handled.data.lat, handled.data.lng)

\* C22: in every state, every member of a job's chat room is authorized for
\* that job at that moment (its customer, its currently assigned driver or an
\* admin), also after the job has been reassigned since the member joined.
C22_MembersAuthorizedNow ==
    \A c \in Conn : \A j \in ChatJobs :
        <<chatRoom(j), c>> \in adapter => ~Unauthorized(c, j)

Malformed(data) == data \in MalformedMessages \cup MalformedLocations \cup MalformedBids

\* C23: an event whose payload lacks a field is rejected before any
\* collaborator is called: in no step of its handling is an access check, a
\* save, a bid or a notification issued, and nothing but an error to the sender
\* is emitted.
C23_MalformedRejectedFirst ==
    (handled.sid # 0 /\ Malformed(handled.data)) =>
        /\ called = <<>>
        /\ \A i \in DOMAIN emitted : emitted[i].event = "error"

\* The authorization check of an event, the call that changes the job, and
\* whether the check holds for the socket and the job.
CheckOf(ev) == IF ev = "place-bid" THEN "canDriverBid" ELSE "verifyDriverJobAccess"
MutationOf(ev) ==
    IF ev = "update-location" THEN "updateDriverLocation"
    ELSE IF ev = "job-status-update" THEN "updateJobStatus"
    ELSE "placeBid"
JobEvents == {"update-location", "job-status-update", "place-bid"}
Mutations == {"JobService." \o MutationOf(ev) : ev \in JobEvents}
CheckHolds(ev, sid, jobId) ==
    IF ev = "place-bid" THEN ~Ineligible(sid, jobId)
    ELSE sockets[sid].userId = assignedDriver(jobId)

\* C24: for update-location, job-status-update and place-bid, a call that
\* changes the job is issued only by the step in which the authorization check
\* of that same event resolved, and resolved true; a handler is past its check
\* only if the check holds; and driver-location and job-update are broadcast
\* only by the step in which that event's change resolved.
C24_CheckBeforeMutationAndBroadcast ==
    /\ \A i \in DOMAIN called :
          called[i].fn \in Mutations =>
              /\ handled.event \in JobEvents
              /\ called[i].fn = "JobService." \o MutationOf(handled.event)
              /\ handled.step = CheckOf(handled.event) \o ":resolve"
              /\ CheckHolds(handled.event, handled.sid, handled.data.jobId)
    /\ \A t \in Pending :
          (t.ev \in JobEvents /\ t.pc # CheckOf(t.ev)) =>
              CheckHolds(t.ev, t.sid, t.data.jobId)
    /\ \A i \in DOMAIN emitted :
          emitted[i].event \in {"driver-location", "job-update"} =>
              /\ handled.event \in {"update-location", "job-status-update"}
              /\ handled.step = MutationOf(handled.event) \o ":resolve"
              /\ CheckHolds(handled.event, handled.sid, handled.data.jobId)

\* The assigned driver's status update has been stored and is broadcast to
\* the customer in the job's room.
C24_Witness ==
    /\ handled.event = "job-status-update"
    /\ handled.step = "updateJobStatus:resolve"
    /\ Len(emitted) = 1
    /\ emitted[1].event = "job-update"
    /\ emitted[1].to # {}
    /\ sockets[handled.sid].userId = assignedDriver(handled.data.jobId)

PushNotification == "NotificationService.sendPushNotification"

\* C25: no step of a place-bid emits to a room or to another connection: the
\* only event a place-bid emits is an error to the bidder's own socket.  A push
\* notification is issued only once the bid is placed and the customer looked
\* up, it is one, and it is addressed to the customer of the job; a place-bid
\* that ends without an error has issued it.
C25_BidNotifiesCustomerOnly ==
    handled.event = "place-bid" =>
        /\ \A i \in DOMAIN emitted :
              /\ emitted[i].event = "error"
              /\ emitted[i].room = ""
              /\ emitted[i].to \subseteq {handled.sid}
        /\ \A i \in DOMAIN called :
              called[i].fn = PushNotification =>
                  /\ handled.step = "getJobCustomerId:resolve"
                  /\ Len(called) = 1
                  /\ called[i].args[1] = customerOf(handled.data.jobId)
                  /\ emitted = <<>>
        /\ (handled.step = "getJobCustomerId:resolve" /\ emitted = <<>>) =>
              (Len(called) = 1 /\ called[1].fn = PushNotification)

\* A bid on the open job is placed and its customer notified, while the
\* customer is in a chat room and another driver is connected.
C25_Witness ==
    /\ handled.event = "place-bid"
    /\ handled.step = "getJobCustomerId:resolve"
    /\ emitted = <<>>
    /\ Len(called) = 1
    /\ called[1].fn = PushNotification
    /\ called[1].args[1] = customerOf(handled.data.jobId)
    /\ \E c \in Conn \ {handled.sid} :
          sockets[c].state = "connected" /\ sockets[c].userRole = "driver"
    /\ \E c \in Conn \ {handled.sid}, j \in ChatJobs : <<chatRoom(j), c>> \in adapter

\* C26: every join-chat issues its own ChatService.verifyChatAccess for the
\* job and the requester; a socket enters a chat room only in the step in which
\* the query of its own join-chat resolved, and resolved true; and a query that
\* resolves false ends the join-chat with an error, whether or not the
\* requester is a member from an earlier join.
C26_JoinQueriesAccessEachTime ==
    /\ [](handled.event = "join-chat" =>
            /\ handled.step = "receive" =>
                  called = <<Call("ChatService.verifyChatAccess",
                                  <<handled.data.jobId, sockets[handled.sid].userId,
                                    sockets[handled.sid].userRole>>)>>
            /\ (handled.step = "verifyChatAccess:resolve"
                  /\ Unauthorized(handled.sid, handled.data.jobId)) =>
                  /\ called = <<>>
                  /\ emitted = <<ErrorTo(handled.sid, "Access denied to this chat")>>)
    /\ [][\A c \in Conn : \A j \in ChatJobs :
            (<<chatRoom(j), c>> \in adapter' /\ <<chatRoom(j), c>> \notin adapter) =>
                /\ handled'.event = "join-chat"
                /\ handled'.sid = c
                /\ handled'.data.jobId = j
                /\ handled'.step = "verifyChatAccess:resolve"
                /\ ~Unauthorized(c, j)]_vars

\* A driver that joined while assigned to the job asks again after the job was
\* given to another driver: the new query resolves false and the join-chat is
\* denied, although the socket is still in the room.
C26_Witness ==
    /\ handled.event = "join-chat"
    /\ handled.step = "verifyChatAccess:resolve"
    /\ Unauthorized(handled.sid, handled.data.jobId)
    /\ <<chatRoom(handled.data.jobId), handled.sid>> \in adapter
    /\ emitted = <<ErrorTo(handled.sid, "Access denied to this chat")>>

\* The steps of a handler past its broadcast: the lookup of whom to notify has
\* settled, and the pushes follow.
NotificationSteps ==
    {"getOtherParticipants:resolve", "getOtherParticipants:reject",
     "getJobCustomerId:resolve", "getJobCustomerId:reject"}

\* C27: a failure in the notification step of a send-message or of a
\* job-status-update stays inside it: once the room broadcast is issued, no
\* error event is emitted to the sender for that event.
C27_NotificationFailureContained ==
    (handled.event \in {"send-message", "job-status-update"}
       /\ handled.step \in NotificationSteps) =>
        \A i \in DOMAIN emitted : emitted[i].event # "error"

\* C28: new-message is broadcast by the step in which the save of that
\* send-message resolved, and by no other; that step broadcasts to the job's
\* room and only then issues the first call of the notification fan-out, the
\* lookup of the other participants, which it leaves pending; and no call of
\* the fan-out is issued by an earlier step of the handler.
C28_BroadcastBetweenSaveAndNotify ==
    /\ \A i \in DOMAIN emitted :
          emitted[i].event = "new-message" =>
              handled.event = "send-message" /\ handled.step = "saveMessage:resolve"
    /\ (handled.event = "send-message" /\ handled.step = "saveMessage:resolve") =>
          /\ Len(emitted) = 1
          /\ emitted[1].event = "new-message"
          /\ emitted[1].room = chatRoom(handled.data.jobId)
          /\ Len(called) = 1
          /\ called[1].fn = "ChatService.getOtherParticipants"
          /\ \E t \in Pending :
                /\ t.sid = handled.sid /\ t.ev = "send-message"
                /\ t.data = handled.data /\ t.pc = "getOtherParticipants"
    /\ handled.event = "send-message" =>
          \A i \in DOMAIN called :
              /\ called[i].fn = "ChatService.getOtherParticipants" =>
                    handled.step = "saveMessage:resolve"
              /\ called[i].fn = PushNotification =>
                    handled.step = "getOtherParticipants:resolve"

\* The message is stored and reaches the members of the room while the lookup
\* of whom to notify has not returned.
C28_Witness ==
    /\ handled.event = "send-message"
    /\ handled.step = "saveMessage:resolve"
    /\ Len(emitted) = 1
    /\ emitted[1].event = "new-message"
    /\ emitted[1].to # {}
    /\ \E t \in Pending : t.sid = handled.sid /\ t.pc = "getOtherParticipants"

\* C29: an emit to a chat room is one emission, delivered to exactly the
\* connections that are members of the room when the call is made; the call
\* changes no membership and leaves nothing pending, and the event is emitted
\* by no later step, so a connection that joins afterwards, or that left
\* before, does not receive it.
C29_RoomEmitToMembersAtCall ==
    /\ [](handled.event = "emitToChat" =>
            /\ Len(emitted) = 1
            /\ emitted[1].room = chatRoom(handled.data.jobId)
            /\ emitted[1].to = LiveMembers(chatRoom(handled.data.jobId)))
    /\ [](\A i \in DOMAIN emitted :
            emitted[i].event = "job-assigned" => handled.event = "emitToChat")
    /\ [][handled'.event = "emitToChat" =>
            /\ UNCHANGED <<sockets, adapter, tasks>>
            /\ emitted'[1].to = LiveMembers(chatRoom(handled'.data.jobId))]_vars

\* The emit reaches a member of the room and not a connection whose join-chat
\* is still waiting for its access check.
C29_Witness ==
    /\ handled.event = "emitToChat"
    /\ emitted[1].to # {}
    /\ \E t \in Pending :
          /\ t.ev = "join-chat" /\ t.pc = "verifyChatAccess"
          /\ sockets[t.sid].state = "connected"
          /\ ~Unauthorized(t.sid, t.data.jobId)
          /\ t.sid \notin emitted[1].to

\* The handler suspended as task t can go on as soon as its call returns.
CanSettle(t) ==
    IF t.ev = "join-chat"
    THEN ENABLED (JoinChatAccess(t, "resolve") \/ JoinChatHistory(t, "resolve"))
    ELSE ENABLED (SendMessageAccess(t, "resolve") \/ SendMessageSaved(t, "resolve")
                    \/ SendMessageNotify(t, "resolve"))

\* C30: a pending collaborator call holds up the handler that issued it and
\* nothing else: whatever calls are pending, each of them can settle and its
\* handler go on, a connected socket's leave-chat and typing are handled at
\* once, and a step taken for one connection leaves the pending calls of the
\* other connections as they are.
C30_PendingCallBlocksOnlyItsEvent ==
    /\ [](\A t \in Pending : CanSettle(t))
    /\ [](\A c \in Conn : \A j \in ChatJobs :
            Connected(c) =>
                /\ ENABLED LeaveChat(c, j)
                /\ ENABLED Typing(c, [jobId |-> j, isTyping |-> TRUE]))
    /\ [][\A t \in Pending :
            t.sid # handled'.sid => CopiesIn(t, tasks') = CopiesIn(t, tasks)]_vars

\* While the access check of one socket's send-message has not returned, the
\* join-chat of the other socket has run to its end: the socket is in the room
\* and has been sent the history.
C30_Witness ==
    /\ handled.event = "join-chat"
    /\ handled.step = "getRecentMessages:resolve"
    /\ <<chatRoom(handled.data.jobId), handled.sid>> \in adapter
    /\ Len(emitted) = 2
    /\ emitted[1].to = {handled.sid}
    /\ \E t \in Pending :
          t.sid # handled.sid /\ t.ev = "send-message" /\ t.pc = "verifyChatAccess"

\* C31: a connection accepted at the handshake is bound to the id of the user
\* the presented token was issued for and is in the user channel of that id;
\* and an emitToUser for a user reaches every connection that user opened.
C31_BoundToTokenUser ==
    /\ (handled.event = "connection" /\ sockets[handled.sid].state = "connected") =>
          /\ sockets[handled.sid].userId = handled.data.token.payload.id
          /\ <<userRoom(handled.data.token.payload.id), handled.sid>> \in adapter
    /\ handled.event = "emitToUser" =>
          \A c \in Conn :
              (sockets[c].state = "connected" /\ handled.data.userId \in UsersOf(c)) =>
                  c \in emitted[1].to

\* C32: two send-message events of one connection for one job are broadcast
\* as new-message in the order the connection sent them: of "first" and
\* "second", sent in that order, "second" is not the one stored and broadcast
\* before the other.
C32_BroadcastInSendOrder ==
    \A i \in DOMAIN messages : \A k \in DOMAIN messages :
        (messages[i].message = "second" /\ messages[k].message = "first") => k < i

\* C33: a join-chat that ends with the error 'Failed to join chat' leaves the
\* requester, who was not in the room when it asked, out of the room, and has
\* broadcast no user-joined.
C33_FailedJoinLeavesNoMember ==
    (handled.event = "join-chat"
       /\ \E i \in DOMAIN emitted :
             emitted[i].event = "error" /\ emitted[i].data.message = "Failed to join chat") =>
        /\ <<chatRoom(handled.data.jobId), handled.sid>> \notin adapter
        /\ \A i \in DOMAIN emitted : emitted[i].event # "user-joined"

\* C34: a connection that has subscribed is a member of exactly one location
\* group, the one of its current locationPreference; it is in no group of an
\* earlier subscription.
C34_ExactlyOneLocationGroup ==
    \A c \in Subscribed :
        locationRoomsOf(c) = {GroupRoom(sockets[c].locationPreference)}

\* C35: between a join of a connection and its next leave, no other member is
\* sent more than one user-joined for it: a join-chat of a connection that is
\* in the room already broadcasts no further user-joined.
C35_OneUserJoinedPerMembership ==
    \A o \in Conn : \A c \in Conn : userJoined[o][c] <= 1

====
